---- MODULE Spec2Model ----
(***************************************************************************)
(* A model of xserver_autorenew.py: the page (DOM) the browser shows, the  *)
(* locate-and-click helpers, the cookie parser, the two login paths, the   *)
(* renewal wizard and the outcome log.                                     *)
(*                                                                         *)
(* Labels are ASCII transliterations of the Japanese labels of the source  *)
(* (the source line of each list is given in MODEL_MAP.json).              *)
(***************************************************************************)
EXTENDS Integers, Sequences, FiniteSets, TLC

VARIABLES
    page,        \* the DOM the browser currently shows: a sequence of elements
    call,        \* the last helper call: its arguments, result and attempts
    cookie_str,  \* the input of parse_cookie_string
    cookies,     \* the output of parse_cookie_string
    cfg,         \* the environment of the process: COOKIE_STR, EMAIL, PASSWORD,
                 \* TARGET_GAME, LOG_TIMEZONE, ..., and the log file at its start
    pc,          \* where main() is
    clock,       \* the wall clock, in seconds (UTC)
    log,         \* the lines of RENEW_LOG_MD
    hist,        \* history: what each write_success_md call wrote, and when
    auth,        \* the calls of cookie_login and password_login in this run
    steps,       \* the outcomes of the steps of do_extend_hours in this run
    diag,        \* the diagnostic captures (snap, dump_html) taken on failures
    nav,         \* whether the run has navigated or injected cookies
    exit         \* the run's exit condition

helpervars == <<page, call>>
parsevars == <<cookie_str, cookies>>
runvars == <<cfg, pc, clock, log, hist, auth, steps, diag, nav, exit>>
vars == <<page, call, cookie_str, cookies, cfg, pc, clock, log, hist, auth, steps,
          diag, nav, exit>>

(***************************************************************************)
(* Bounds.                                                                 *)
(***************************************************************************)
MaxElems == 2      \* elements of a page
MaxFrames == 2     \* embedded frames of a page (page.frames minus main_frame)
MaxLen == 4        \* characters of a cookie string

(***************************************************************************)
(* Generic helpers.                                                        *)
(***************************************************************************)
Min(S) == CHOOSE x \in S : \A y \in S : x <= y

\* The element of a one-element set.  Only({e(x) : x \in {v}}) is e(v) with v
\* evaluated once.
Only(S) == CHOOSE x \in S : TRUE

RECURSIVE Flatten(_)
Flatten(ss) == IF ss = <<>> THEN <<>> ELSE Head(ss) \o Flatten(Tail(ss))

Map(f(_), s) == [i \in 1..Len(s) |-> f(s[i])]

SeqsUpTo(S, n) == UNION {[1..k -> S] : k \in 0..n}

(***************************************************************************)
(* The DOM.  An element is                                                 *)
(*   frame  : 0 for the main frame, 1..MaxFrames for an embedded frame     *)
(*   row    : 0, or the index of the tbody row the element is in           *)
(*   card   : 0, or the index of the block of class "card" or "item" the   *)
(*            element is in; a block lies inside one table cell or outside *)
(*            every table, so it is a nearer ancestor than the row         *)
(*   kind   : its tag/role class (see the locator tables below)            *)
(*   text   : its text content, value or accessible name                   *)
(*   status : "ok" (visible and actionable), "blocked" (visible, covered   *)
(*            by another element: a click times out), "disabled" (visible, *)
(*            carries the disabled attribute: a click times out), "hidden" *)
(*            (not visible, a click times out), "closing" (visible and     *)
(*            actionable; the click is delivered and closes the page, so   *)
(*            that every later call on the page or its frames raises),     *)
(*            "slow" (visible and actionable; the click is delivered and   *)
(*            starts a navigation that does not commit before the timeout  *)
(*            of the click, so that click() raises and the page stays up)  *)
(*            or "gone" (the page was closed: no locator finds the         *)
(*            element)                                                     *)
(*   checked: for a checkbox or a radio, whether it is checked             *)
(* A labelled control (radio, checkbox, text input) is one element whose   *)
(* text is the text of its label.                                          *)
(***************************************************************************)
Statuses == {"ok", "blocked", "disabled", "hidden"}
\* The statuses of an element that cannot carry the disabled attribute (a link,
\* a div, a span).
LinkStatuses == {"ok", "blocked", "hidden"}

Elem(frame, row, kind, text, status) ==
    [frame |-> frame, row |-> row, card |-> 0, kind |-> kind, text |-> text,
     status |-> status, checked |-> FALSE]

\* An element of the main document inside the block (card, item) number card.
CardElem(row, card, kind, text, status) ==
    [frame |-> 0, row |-> row, card |-> card, kind |-> kind, text |-> text,
     status |-> status, checked |-> FALSE]

\* A checkbox of the main frame with its label's text ("": no label).  Kind
\* "checkbox": the input is shown, status is that of the input and its label;
\* kind "custom_checkbox": the input is hidden behind a styled label, status is
\* that of the label.
CheckBox(kind, text, status, checked) ==
    [frame |-> 0, row |-> 0, card |-> 0, kind |-> kind, text |-> text,
     status |-> status, checked |-> checked]

CheckKinds == {"checkbox", "custom_checkbox"}

\* 'exact=False' / ':has-text' / '[value*=]': substring match.  The pairs
\* <<needle, hay>> of distinct texts of the model where the source's needle
\* occurs in the source's hay (computed from the Japanese strings).
Substrings ==
    {
      <<"account", "account_id">>,
      <<"ID", "login_id">>,
      <<"ID", "account_id">>,
      <<"mail", "mail_address">>,
      <<"login", "login_id">>,
      <<"login", "login_suru">>,
      <<"login", "login_he">>,
      <<"kigen_enchou", "upgrade_kigen_enchou">>,
      <<"kigen_enchou", "upgrade_slash_kigen_enchou">>,
      <<"kigen_enchou", "upgrade_sp_kigen_enchou">>,
      <<"kigen_enchou", "plan_henkou_kigen_enchou">>,
      <<"koushin", "koushin_tetsuzuki">>,
      <<"plan_henkou", "plan_henkou_kigen_enchou">>,
      <<"shousai", "game_shousai">>,
      <<"shousai", "service_shousai">>,
      <<"shousai", "waters_shousai">>,
      <<"kanri", "game_kanri">>,
      <<"keiyaku", "keiyaku_jouhou">>,
      <<"shiharai", "oshiharai">>,
      <<"enchou", "upgrade_kigen_enchou">>,
      <<"enchou", "upgrade_slash_kigen_enchou">>,
      <<"enchou", "upgrade_sp_kigen_enchou">>,
      <<"enchou", "kigen_enchou">>,
      <<"enchou", "kigen_wo_enchou_suru">>,
      <<"enchou", "plan_henkou_kigen_enchou">>,
      <<"enchou", "+72jikan_enchou">>,
      <<"enchou", "fw+72jikan_enchou">>,
      <<"enchou", "72jikan_enchou">>,
      <<"enchou", "enchou_suru">>,
      <<"enchou", "enchou_wo_kakutei_suru">>,
      <<"72jikan_enchou", "+72jikan_enchou">>,
      <<"72jikan_enchou", "fw+72jikan_enchou">>,
      <<"+72jikan", "+72jikan_enchou">>,
      <<"fw+72jikan", "fw+72jikan_enchou">>,
      <<"72jikan", "+72jikan_enchou">>,
      <<"72jikan", "fw+72jikan_enchou">>,
      <<"72jikan", "72jikan_enchou">>,
      <<"72jikan", "+72jikan">>,
      <<"72jikan", "fw+72jikan">>,
      <<"72", "+72jikan_enchou">>,
      <<"72", "fw+72jikan_enchou">>,
      <<"72", "72jikan_enchou">>,
      <<"72", "+72jikan">>,
      <<"72", "fw+72jikan">>,
      <<"72", "72jikan">>,
      <<"72", "72 jikan">>,
      <<"enchou_suru", "kigen_wo_enchou_suru">>,
      <<"kakunin_gamen_he", "kakunin_gamen_he_susumu">>,
      <<"susumu", "kakunin_gamen_ni_susumu">>,
      <<"susumu", "kakunin_he_susumu">>,
      <<"susumu", "kakunin_gamen_he_susumu">>,
      <<"susumu", "tsugi_ni_susumu">>,
      <<"doui", "doui_shimasu">>,
      <<"doui", "kiyaku_ni_doui_shimasu">>,
      <<"kakunin", "kakunin_gamen_ni_susumu">>,
      <<"kakunin", "kakunin_he_susumu">>,
      <<"kakunin", "kakunin_gamen_he">>,
      <<"kakunin", "kakunin_gamen_he_susumu">>,
      <<"kakunin", "moushikomi_naiyou_wo_kakunin">>,
      <<"kakunin", "moushi_komi_naiyou_wo_kakunin">>,
      <<"kakunin", "moushikomi_mi_naiyou_wo_kakunin">>,
      <<"kakunin", "kakunin_suru">>,
      <<"kakunin", "kakunin_shimashita">>,
      <<"doui_shimasu", "kiyaku_ni_doui_shimasu">>,
      <<"kiyaku", "kiyaku_ni_doui_shimasu">>,
      <<"waters", "waters_shousai">> }

Contains(hay, needle) == hay = needle \/ <<needle, hay>> \in Substrings

\* Which element kinds each locator strategy can match.
StratKinds(strat) ==
    CASE strat = "role_button" ->
             {"button", "submit_button", "primary_button", "input_submit", "rolebtn"}
      [] strat = "role_link"   -> {"a", "primary_link", "iconlink"}
      [] strat = "text"        ->
             {"button", "submit_button", "primary_button", "input_submit", "rolebtn",
              "a", "primary_link", "label", "div", "span_btn", "radio", "checkbox",
              "custom_checkbox", "input_email", "input_password"}
      [] strat = "sel_a"       -> {"a", "primary_link"}
      [] strat = "sel_button"  -> {"button", "submit_button", "primary_button"}
      [] strat = "sel_input"   -> {"input_submit", "radio"}
      [] strat = "sel_label"   ->
             {"label", "radio", "checkbox", "custom_checkbox", "input_email",
              "input_password"}
      [] strat = "by_label"    ->
             {"radio", "checkbox", "custom_checkbox", "input_email", "input_password"}
      [] strat = "role_radio"  -> {"radio"}
      [] strat = "sel_radio_eq"   -> {"radio"}
      [] strat = "sel_radio_sub"  -> {"radio"}
      [] strat = "sel_input_eq"   -> {"input_submit", "radio"}
      [] strat = "css_email"   -> {"input_email"}
      [] strat = "css_pwd"     -> {"input_password"}
      [] strat = "sel_checkbox" -> {"checkbox", "custom_checkbox"}
      [] strat = "sel_submit_button"  -> {"submit_button"}
      [] strat = "sel_submit_input"   -> {"input_submit"}
      [] strat = "sel_primary_button" -> {"primary_button"}
      [] strat = "sel_primary_link"   -> {"primary_link"}
      [] strat = "row_button"  -> {"button", "submit_button", "primary_button"}
      [] strat = "row_rolebtn" -> {"rolebtn"}
      [] strat = "row_a"       -> {"a", "primary_link"}
      [] strat = "row_btnclass" -> {"primary_button", "primary_link", "span_btn"}
      [] strat = "row_any"     ->
             {"button", "submit_button", "primary_button", "a", "primary_link",
              "rolebtn", "span_btn", "div"}
      [] OTHER -> {}

\* Strategies that compare the whole attribute (value="72"), not a substring.
ExactStrats == {"sel_radio_eq", "sel_input_eq"}
\* Strategies of click_submit_fallback: no text is involved.
NoTextStrats == {"sel_submit_button", "sel_submit_input", "sel_primary_button",
                 "sel_primary_link", "css_email", "css_pwd", "sel_checkbox"}

\* Strategies whose selector carries :not([disabled]).
EnabledStrats == {"sel_submit_button", "sel_submit_input", "sel_primary_button"}
\* Strategies that resolve to the <input> of a labelled control, not to its
\* label: get_by_label and input[type="checkbox"].
InputStrats == {"by_label", "sel_checkbox"}
\* The kinds fill() accepts: a checkbox or a radio makes it raise.
FillKinds == {"input_email", "input_password"}

\* Strategies that leave hidden elements out: get_by_role matches the
\* accessibility tree, which holds no hidden element.
RoleStrats == {"role_button", "role_link", "role_radio"}

\* The row scope 'tbody tr:has(...) >> ...': an element of any row.
AnyRow == -1
\* The scope of a locator whose parent locator matches nothing.
NoRow == -2

\* A locator: a strategy and a label, scoped to a frame, and to a row (0: the
\* whole frame), to a block (0: none) or to one element (0: none).
Key(frame, row, strat, label) ==
    [frame |-> frame, row |-> row, card |-> 0, at |-> 0, strat |-> strat,
     label |-> label]

\* parent.locator(...) where parent is the block number card.
CardKey(card, strat, label) == [Key(0, 0, strat, label) EXCEPT !.card = card]

\* container.locator('text=...') where container is element i.  The elements
\* of the model have no descendants: element i stands for the container
\* together with what it holds, and its text is the text of all of it.
SelfKey(i, strat, label) == [Key(0, 0, strat, label) EXCEPT !.at = i]

\* The status of what locator k resolves to on element e: the <input> of a
\* styled checkbox is hidden behind its label.
StatusAt(e, k) ==
    IF e.kind = "custom_checkbox" /\ k.strat \in InputStrats THEN "hidden" ELSE e.status

Matches(e, k) ==
    /\ e.status # "gone"
    /\ e.frame = k.frame
    /\ (k.row = 0 \/ e.row = k.row \/ (k.row = AnyRow /\ e.row > 0))
    /\ (k.card = 0 \/ e.card = k.card)
    /\ e.kind \in StratKinds(k.strat)
    /\ ~(k.strat \in EnabledStrats /\ e.status = "disabled")
    /\ ~(k.strat \in RoleStrats /\ StatusAt(e, k) = "hidden")
    /\ \/ k.strat \in NoTextStrats
       \/ k.strat \in ExactStrats /\ e.text = k.label
       \/ k.strat \notin (NoTextStrats \cup ExactStrats) /\ Contains(e.text, k.label)

\* The indices of the elements locator k matches.
MatchSet(p, k) == {i \in 1..Len(p) : Matches(p[i], k) /\ (k.at = 0 \/ k.at = i)}

\* locator.count()
Count(p, k) == Cardinality(MatchSet(p, k))

\* locator.first: the index of the first match in document order, 0 if none.
First(p, k) == IF MatchSet(p, k) = {} THEN 0 ELSE Min(MatchSet(p, k))

\* locator.first.is_visible()
FirstVisible(p, k) == First(p, k) # 0 /\ StatusAt(p[First(p, k)], k) # "hidden"

\* The statuses of an element that a click reaches.
Actionable == {"ok", "closing", "slow"}

\* locator.first.click(timeout): the click is delivered iff the first match
\* becomes actionable; with no match, a hidden, a covered or a disabled first
\* match it times out.
ClickDelivered(p, k) == First(p, k) # 0 /\ StatusAt(p[First(p, k)], k) \in Actionable

\* The try block raises after the click was delivered: click() times out
\* on the navigation the click started, or the click closed the page and
\* page_or_frame.wait_for_timeout(250) raises.
RaisesAfterClick(p, k) == StatusAt(p[First(p, k)], k) \in {"closing", "slow"}

\* A mutant of try_click: a locator that matches nothing counts as clicked.
try_click_NoMatchClicks(p, k) ==
    First(p, k) = 0 \/ (ClickDelivered(p, k) /\ ~RaisesAfterClick(p, k))

\* try_click: True iff the click was delivered and nothing raised after it; a
\* click that timed out before it was delivered and a delivered click after
\* which click() or the wait raised are both turned into False by the except
\* clause.
try_click(p, k) == ClickDelivered(p, k) /\ ~RaisesAfterClick(p, k)

\* The page is closed.
Closed(p) == [i \in 1..Len(p) |-> [p[i] EXCEPT !.status = "gone"]]

\* The DOM after a click was delivered on element i: the page is closed, a
\* checkbox (clicked on its input or on its label) is toggled, a radio is
\* selected.
Click(p, i) ==
    IF p[i].status = "closing" THEN Closed(p)
    ELSE IF p[i].kind \in CheckKinds THEN [p EXCEPT ![i].checked = ~@]
    ELSE IF p[i].kind = "radio" THEN [p EXCEPT ![i].checked = TRUE]
    ELSE p

\* The DOM after try_click(p, k).
AfterTry(p, k) ==
    Only({ IF ClickDelivered(q, k) THEN Click(q, First(q, k)) ELSE q : q \in {p} })

\* The page was closed by a click.
PageClosed(p) == \E i \in 1..Len(p) : p[i].status = "gone"

(***************************************************************************)
(* The locate-and-click helpers.  Each loop of the source that returns at  *)
(* its first successful click is a plan (the locators in the order the     *)
(* loops visit them) run up to its first success.                          *)
(***************************************************************************)
\* The result of a helper: whether it returned True, the locators it tried
\* in order, the index of the element whose click made it return True (0:
\* none), the indices of the elements that received a click, in order, and
\* the DOM it leaves.
Result(ok, attempts, clicked, delivered, p) ==
    [ok |-> ok, attempts |-> attempts, clicked |-> clicked, delivered |-> delivered,
     page |-> p]

\* Helper b is run after helper a returned False.
Then(a, b) ==
    Only({ Result(y.ok, x.attempts \o y.attempts, y.clicked, x.delivered \o y.delivered,
                  y.page) : x \in {a}, y \in {b} })

\* for k in plan: if try_click(k): return True / return False.  A delivered
\* click whose wait raised counts as a failure: the loop goes on with the
\* next locator on the DOM the click left.
RECURSIVE RunPlan(_, _)
RunPlan(p0, plan0) ==
    Only({ LET \* the attempts that return True or deliver a click
               hits == {i \in 1..Len(plan) :
                           try_click(p, plan[i]) \/ ClickDelivered(p, plan[i])}
           IN  IF hits = {}
               THEN Result(FALSE, plan, 0, <<>>, p)
               ELSE LET i == Min(hits)
                        e == First(p, plan[i])
                        q == AfterTry(p, plan[i])
                    IN  IF try_click(p, plan[i])
                        THEN Result(TRUE, SubSeq(plan, 1, i), e, <<e>>, q)
                        ELSE Then(Result(FALSE, SubSeq(plan, 1, i), 0, <<e>>, q),
                                  RunPlan(q, SubSeq(plan, i + 1, Len(plan))))
           : p \in {p0}, plan \in {plan0} })

\* The four attribute selectors of click_by_text and click_text_global.
Selectors == <<"sel_a", "sel_button", "sel_input", "sel_label">>

\* One label in click_by_text: the roles, then free text, then the selectors.
LabelPlan(frame, t, roles) ==
    [i \in 1..Len(roles) |-> Key(frame, 0, roles[i], t)]
    \o <<Key(frame, 0, "text", t)>>
    \o [i \in 1..Len(Selectors) |-> Key(frame, 0, Selectors[i], t)]

DefaultRoles == <<"role_button", "role_link">>

ClickByTextPlan(frame, texts, roles) ==
    Flatten([i \in 1..Len(texts) |-> LabelPlan(frame, texts[i], roles)])

\* A mutant of click_by_text: strategy-major, every label under one strategy
\* before the next strategy.
click_by_text_StrategyMajor(p, texts) ==
    LET strats == DefaultRoles \o <<"text">> \o Selectors
    IN  RunPlan(p, [n \in 1..(Len(strats) * Len(texts)) |->
                       Key(0, 0, strats[((n - 1) \div Len(texts)) + 1],
                           texts[((n - 1) % Len(texts)) + 1])])

click_by_text(p, texts) == RunPlan(p, ClickByTextPlan(0, texts, DefaultRoles))

\* The roles click_text_global tries inside a frame.
FrameRoles == <<"role_button">>

\* for fr in page.frames: if fr == page.main_frame: continue; for t in texts: ...
FramesPlan(texts) ==
    Flatten([f \in 1..MaxFrames |-> ClickByTextPlan(f, texts, FrameRoles)])

click_text_global(p, texts) ==
    Only({ IF m.ok THEN m ELSE Then(m, RunPlan(m.page, FramesPlan(texts)))
           : m \in {click_by_text(p, texts)} })

\* RENEW_HOURS = 72: hours_str and the seven surface forms of select_hours.
HoursStr == "72"
HoursTexts ==
    << "+72jikan_enchou",    \* +72時間延長
       "fw+72jikan_enchou",  \* ＋72時間延長 (full-width plus)
       "72jikan_enchou",     \* 72時間延長
       "+72jikan",           \* +72時間
       "fw+72jikan",         \* ＋72時間
       "72jikan",            \* 72時間
       "72 jikan" >>         \* 72 時間

SelectHoursPlan(texts) ==
    [i \in 1..Len(texts) |-> Key(0, 0, "by_label", texts[i])]
    \o [i \in 1..Len(texts) |-> Key(0, 0, "role_radio", texts[i])]
    \o [i \in 1..Len(texts) |-> Key(0, 0, "sel_label", texts[i])]
    \o << Key(0, 0, "sel_radio_eq", HoursStr), Key(0, 0, "sel_radio_sub", HoursStr),
          Key(0, 0, "sel_input_eq", HoursStr), Key(0, 0, "sel_input", HoursStr) >>

select_hours(p, texts) ==
    Only({ IF a.ok THEN a ELSE Then(a, click_text_global(a.page, texts))
           : a \in {RunPlan(p, SelectHoursPlan(texts))} })

\* for k in plan: if count() > 0 and first.is_visible(): return try_click(first)
\* return False
ProbePlan(p0, plan) ==
    Only({ LET seen == {i \in 1..Len(plan) :
                           Count(p, plan[i]) > 0 /\ FirstVisible(p, plan[i])}
           IN  IF seen = {}
               THEN Result(FALSE, plan, 0, <<>>, p)
               ELSE LET i == Min(seen)
                    IN  Result(try_click(p, plan[i]), SubSeq(plan, 1, i),
                               IF try_click(p, plan[i]) THEN First(p, plan[i]) ELSE 0,
                               IF ClickDelivered(p, plan[i]) THEN <<First(p, plan[i])>>
                               ELSE <<>>,
                               AfterTry(p, plan[i]))
           : p \in {p0} })

SubmitSelectors ==
    <<"sel_submit_button", "sel_submit_input", "sel_primary_button", "sel_primary_link">>

SubmitPlan == [i \in 1..Len(SubmitSelectors) |-> Key(0, 0, SubmitSelectors[i], "")]

\* A mutant of click_submit_fallback: it reports a click it did not deliver.
click_submit_fallback_Optimistic(p) == Result(TRUE, <<>>, 0, <<>>, p)

click_submit_fallback(p) == ProbePlan(p, SubmitPlan)

RowSelectors == <<"row_button", "row_rolebtn", "row_a", "row_btnclass", "row_any">>
GameKanri == "game_kanri"    \* ゲーム管理

RowPlan(row) == [i \in 1..Len(RowSelectors) |-> Key(0, row, RowSelectors[i], GameKanri)]

click_row_btn(p, row) == ProbePlan(p, RowPlan(row))

(***************************************************************************)
(* Label lists of the source.                                              *)
(***************************************************************************)
\* do_extend_hours, the entry button: 期限を延長する, 延長する
ENTRY_TEXTS == <<"kigen_wo_enchou_suru", "enchou_suru">>

\* do_extend_hours, confirm_texts
CONFIRM_TEXTS ==
    << "kakunin_gamen_ni_susumu",      \* 確認画面に進む
       "kakunin_he_susumu",            \* 確認へ進む
       "kakunin_gamen_he",             \* 確認画面へ
       "kakunin_gamen_he_susumu",      \* 確認画面へ進む
       "moushikomi_naiyou_wo_kakunin", \* 申込内容を確認
       "moushi_komi_naiyou_wo_kakunin",\* 申し込み内容を確認
       "moushikomi_mi_naiyou_wo_kakunin", \* 申込み内容を確認
       "kakunin_suru",                 \* 確認する
       "tsugi_he",                     \* 次へ
       "tsugi_ni_susumu",              \* 次に進む
       "susumu" >>                     \* 進む

\* do_extend_hours, final_texts: 期限を延長する, 延長する, 実行する, 延長を確定する
FINAL_TEXTS ==
    <<"kigen_wo_enchou_suru", "enchou_suru", "jikkou_suru", "enchou_wo_kakutei_suru">>

(***************************************************************************)
(* The pages the helpers are run on: every sequence of at most MaxElems    *)
(* elements of one family, in document order (the main frame first).       *)
(***************************************************************************)

TextElems ==
    { Elem(0, 0, k, t, s) : k \in {"button", "a", "iconlink", "input_submit", "label"},
                            t \in {"kigen_wo_enchou_suru", "enchou_suru"},
                            s \in {"ok", "blocked"} }
    \cup { Elem(f, 0, k, "enchou_suru", s) : f \in 1..MaxFrames,
                            k \in {"button", "iconlink", "label"},
                            s \in {"ok", "blocked"} }

\* Controls that are in the DOM but not shown, controls whose click closes
\* the page and controls whose click starts a slow navigation.
EdgeElems ==
    { Elem(0, 0, k, t, s) : k \in {"button", "a", "label"},
                            t \in {"kigen_wo_enchou_suru", "enchou_suru"},
                            s \in {"ok", "hidden", "closing", "slow"} }
    \cup { Elem(f, 0, "button", "enchou_suru", s) : f \in 1..MaxFrames,
                                                   s \in {"ok", "closing", "slow"} }

SubmitElems ==
    { Elem(0, 0, k, "soushin", s) :
        k \in {"submit_button", "input_submit", "primary_button"}, s \in Statuses }
    \cup { Elem(0, 0, "primary_link", "soushin", s) : s \in LinkStatuses }

RowElems ==
    { Elem(0, r, k, GameKanri, s) : r \in {1, 2}, k \in {"button", "a", "span_btn"},
                                    s \in LinkStatuses }

HoursElems ==
    { Elem(0, 0, k, t, s) : k \in {"radio", "label"}, t \in {"+72jikan_enchou", "72"},
                            s \in {"ok", "blocked"} }
    \cup { Elem(1, 0, "button", "72jikan", "ok"),
           \* a styled option: the input is hidden behind its label
           Elem(0, 0, "custom_checkbox", "+72jikan_enchou", "ok"),
           \* an option that is an ordinary checkbox
           Elem(0, 0, "checkbox", "+72jikan_enchou", "ok"),
           \* an option that is not shown, and one whose click closes the page
           Elem(0, 0, "radio", "+72jikan_enchou", "hidden"),
           Elem(0, 0, "label", "72jikan", "closing"),
           Elem(0, 0, "label", "72jikan", "slow") }

\* The game index: two rows, each with the name of a game and a management
\* control, and an index of eleven rows whose only control is in the last.
\* min(cnt, 10): the rows the scan of open_game_management looks at.
MaxScanRows == 10
GameNames == {"waters", "other"}
IndexRow(r, name, kind, status) ==
    <<Elem(0, r, "div", name, "ok"), Elem(0, r, kind, GameKanri, status)>>
LongIndex(kind) ==
    [r \in 1..MaxScanRows |-> Elem(0, r, "div", "other", "ok")]
    \o <<Elem(0, MaxScanRows + 1, kind, GameKanri, "ok")>>
IndexRowPages ==
    { IndexRow(1, n1, k1, s1) \o IndexRow(2, n2, k2, s2) :
        n1 \in GameNames, n2 \in GameNames,
        k1 \in {"button", "a", "span_btn"}, k2 \in {"button", "a", "span_btn"},
        s1 \in LinkStatuses, s2 \in LinkStatuses }
    \cup { LongIndex(k) : k \in {"button", "span_btn"} }
    \cup { \* the name of the game is the alt text of an image, not text
           <<Elem(0, 1, "button", GameKanri, "ok"), Elem(0, 2, "iconlink", "waters", "ok"),
             Elem(0, 2, "button", GameKanri, "ok")>>,
           \* the only table is inside an embedded frame
           <<Elem(1, 1, "button", GameKanri, "ok")>> }

\* Game-management pages and the pages behind their detail and contract
\* links.
NavPages ==
    { <<>>,
      <<Elem(0, 0, "a", "upgrade_kigen_enchou", "ok")>>,
      <<Elem(0, 0, "a", "upgrade_kigen_enchou", "blocked")>>,
      <<Elem(1, 0, "button", "kigen_enchou", "ok")>>,
      <<Elem(0, 0, "a", "shousai", "ok"), Elem(0, 0, "a", "keiyaku", "ok")>>,
      <<Elem(0, 0, "a", "ryoukin", "ok")>>,
      <<Elem(0, 1, "div", "waters", "ok"), Elem(0, 1, "a", "settei", "ok")>>,
      \* the name of the game in a heading above the table
      <<Elem(0, 0, "div", "waters", "ok"), Elem(0, 0, "a", "shousai", "ok"),
        Elem(0, 1, "div", "waters", "ok"), Elem(0, 1, "a", "settei", "ok")>>,
      <<Elem(0, 0, "button", "enchou_suru", "ok")>>,
      \* the game in a block of class "card", outside every table
      <<CardElem(0, 1, "div", "waters", "ok"), CardElem(0, 1, "a", "shousai", "ok")>>,
      \* the game in a block inside a row that has a link of its own
      <<Elem(0, 1, "a", "kanri", "ok"), CardElem(1, 1, "div", "waters", "ok"),
        CardElem(1, 1, "a", "settei", "ok")>>,
      \* the name of the game and a detail link in one element, before a
      \* detail link of the page
      <<Elem(0, 0, "div", "waters_shousai", "ok"), Elem(0, 0, "a", "shousai", "ok")>>,
      \* an upgrade link that is in the DOM but not shown
      <<Elem(0, 0, "a", "upgrade_kigen_enchou", "hidden"),
        Elem(0, 0, "button", "kigen_enchou", "ok")>>,
      \* a detail link that closes the window, and one that is slow
      <<Elem(0, 0, "a", "shousai", "closing")>>,
      <<Elem(0, 0, "a", "shousai", "slow"), Elem(0, 0, "a", "keiyaku", "ok")>> }

\* Checkboxes: shown or styled (the input hidden behind its label), with a
\* label that holds one agreement keyword (注意事項) or two (同意します holds
\* 同意 too), shown or not, checked or not; and a page of six checkboxes.
CheckElems ==
    { CheckBox(k, t, s, c) : k \in {"checkbox", "custom_checkbox"},
                             t \in {"chuui_jikou", "doui_shimasu"},
                             s \in {"ok", "hidden"}, c \in BOOLEAN }
SixBoxes == [i \in 1..6 |-> CheckBox("checkbox", "", "ok", FALSE)]

InDocumentOrder(p) == \A i, j \in 1..Len(p) : i < j => p[i].frame <= p[j].frame

PagesOf(E) == {p \in SeqsUpTo(E, MaxElems) : InDocumentOrder(p)}

\* Boxes whose click closes the page or starts a slow navigation.
EdgeBoxes ==
    { <<CheckBox("checkbox", "", "closing", FALSE), CheckBox("checkbox", "", "ok", FALSE)>>,
      <<CheckBox("checkbox", "", "slow", FALSE)>>,
      <<CheckBox("checkbox", "doui_shimasu", "closing", TRUE),
        CheckBox("checkbox", "", "ok", FALSE)>> }

CheckPages == PagesOf(CheckElems) \cup {SixBoxes} \cup EdgeBoxes

ChainPages == PagesOf(TextElems) \cup PagesOf(EdgeElems) \cup PagesOf(SubmitElems)
              \cup PagesOf(RowElems)
              \cup PagesOf(HoursElems) \cup IndexRowPages \cup NavPages \cup CheckPages

ChainTexts == {ENTRY_TEXTS, <<"enchou_suru">>, CONFIRM_TEXTS}

(***************************************************************************)
(* SpecChain: one helper call on one page.                                 *)
(***************************************************************************)
NoCall == [fn |-> "none", texts |-> <<>>, row |-> 0, ok |-> FALSE, attempts |-> <<>>,
           clicked |-> 0, delivered |-> <<>>, before |-> <<>>]

NoCookies == [done |-> FALSE, domain |-> "", out |-> <<>>]

NoAuthCall == [called |-> FALSE, ret |-> FALSE, ev |-> <<>>, form |-> <<>>]
NoAuth == [cookie |-> NoAuthCall, pwd |-> NoAuthCall]

DefaultCfg ==
    [cookie |-> <<>>, email |-> "", password |-> "", target |-> "",
     tz |-> "Asia/Tokyo", zoneinfo |-> TRUE, override |-> FALSE, log0 |-> <<>>]

\* The run's variables where no run is modelled.
RunIdle ==
    /\ cfg = DefaultCfg
    /\ pc = "idle"
    /\ clock = 0
    /\ log = <<>>
    /\ hist = <<>>
    /\ auth = NoAuth
    /\ steps = <<>>
    /\ diag = {}
    /\ nav = FALSE
    /\ exit = "none"

\* What a helper call leaves behind: the call, and the page the browser shows.
\* A delivered click leaves the DOM with what the click did to it (a toggled
\* checkbox, a selected radio, a closed page), or the site navigates away; a
\* call that delivers no click leaves the page alone.
Called(fn, texts, row, res) ==
    \E r \in {res} :
        /\ call' = [fn |-> fn, texts |-> texts, row |-> row, ok |-> r.ok,
                    attempts |-> r.attempts, clicked |-> r.clicked,
                    delivered |-> r.delivered, before |-> page]
        /\ IF r.delivered = <<>> THEN page' = page
           ELSE IF PageClosed(r.page) THEN page' = r.page
           ELSE page' \in {r.page, <<>>}
        /\ UNCHANGED <<parsevars, runvars>>

CallClickByText ==
    /\ call.fn = "none"
    /\ \E texts \in ChainTexts : Called("click_by_text", texts, 0, click_by_text(page, texts))

CallClickTextGlobal ==
    /\ call.fn = "none"
    /\ \E texts \in ChainTexts :
          Called("click_text_global", texts, 0, click_text_global(page, texts))

CallSelectHours ==
    /\ call.fn = "none"
    /\ Called("select_hours", HoursTexts, 0, select_hours(page, HoursTexts))

CallClickSubmitFallback ==
    /\ call.fn = "none"
    /\ Called("click_submit_fallback", <<>>, 0, click_submit_fallback(page))

CallClickRowBtn ==
    /\ call.fn = "none"
    /\ \E row \in {1, 2} : Called("click_row_btn", <<>>, row, click_row_btn(page, row))

InitChain ==
    /\ page \in ChainPages
    /\ call = NoCall
    /\ cookie_str = <<>>
    /\ cookies = NoCookies
    /\ RunIdle


(***************************************************************************)
(* parse_cookie_string.  A string is a sequence of characters.             *)
(***************************************************************************)
Chars == {"a", "b", "=", ";", " "}
CookieDomains == <<"secure.xserver.ne.jp", "www.xserver.ne.jp">>

\* str.split(sep): the pieces between the separators, empty pieces included.
RECURSIVE Split(_, _)
Split(s, sep) ==
    LET at == {i \in 1..Len(s) : s[i] = sep}
    IN  IF at = {} THEN <<s>>
        ELSE <<SubSeq(s, 1, Min(at) - 1)>> \o Split(SubSeq(s, Min(at) + 1, Len(s)), sep)

\* str.strip(): leading and trailing whitespace removed.
RECURSIVE Strip(_)
Strip(s) ==
    IF s = <<>> THEN s
    ELSE IF Head(s) = " " THEN Strip(Tail(s))
    ELSE IF s[Len(s)] = " " THEN Strip(SubSeq(s, 1, Len(s) - 1))
    ELSE s

\* [x for x in s if keep(x)]
RECURSIVE Filter(_, _)
Filter(keep(_), s) ==
    IF s = <<>> THEN <<>>
    ELSE IF keep(Head(s)) THEN <<Head(s)>> \o Filter(keep, Tail(s))
    ELSE Filter(keep, Tail(s))

NonEmpty(s) == s # <<>>
HasEq(s) == \E i \in 1..Len(s) : s[i] = "="

\* item.split("=", 1): the text before and after the first "=".
SplitFirstEq(item) ==
    LET i == Min({j \in 1..Len(item) : item[j] = "="})
    IN  [name |-> SubSeq(item, 1, i - 1), value |-> SubSeq(item, i + 1, Len(item))]

Cookie(name, value, domain) ==
    [name |-> name, value |-> value, domain |-> domain, path |-> "/",
     httpOnly |-> FALSE, secure |-> TRUE, sameSite |-> "Lax"]

\* [p.strip() for p in cookie_str.split(";") if p.strip()]
Items(s) == Filter(NonEmpty, Map(Strip, Split(s, ";")))

\* if "=" not in item: continue
KeepItem(item) == HasEq(item)

parse_cookie_string(s, domain) ==
    LET items == Filter(KeepItem, Items(s))
    IN  [i \in 1..Len(items) |->
            Cookie(Strip(SplitFirstEq(items[i]).name),
                   Strip(SplitFirstEq(items[i]).value), domain)]

(***************************************************************************)
(* SpecParse: parse_cookie_string on every string of at most MaxLen        *)
(* characters.                                                             *)
(***************************************************************************)
Parse ==
    /\ ~cookies.done
    /\ \E d \in 1..Len(CookieDomains) :
          cookies' = [done |-> TRUE, domain |-> CookieDomains[d],
                      out |-> parse_cookie_string(cookie_str, CookieDomains[d])]
    /\ UNCHANGED <<page, call, cookie_str, runvars>>

InitParse ==
    /\ cookie_str \in SeqsUpTo(Chars, MaxLen)
    /\ cookies = NoCookies
    /\ page = <<>>
    /\ call = NoCall
    /\ RunIdle

NextParse == Parse

SpecParse == InitParse /\ [][NextParse]_vars

\* C8 (as claimed): parse_cookie_string yields exactly one entry per segment
\* that has a non-empty name and a non-empty value once trimmed, and drops
\* every other segment, '=value' and 'name=' included.
ClaimedItem(item) ==
    /\ HasEq(item)
    /\ Strip(SplitFirstEq(item).name) # <<>>
    /\ Strip(SplitFirstEq(item).value) # <<>>

ClaimedCookies(s, domain) ==
    LET items == Filter(ClaimedItem, Items(s))
    IN  [i \in 1..Len(items) |->
            Cookie(Strip(SplitFirstEq(items[i]).name),
                   Strip(SplitFirstEq(items[i]).value), domain)]

C8_DiscardsNamelessAndValueless ==
    cookies.done => cookies.out = ClaimedCookies(cookie_str, cookies.domain)

(***************************************************************************)
(* Claims about the helpers (SpecChain).                                   *)
(***************************************************************************)
\* No element of the page, in the main document or in a frame, carries a text
\* that contains one of the labels.
NoMatchAnywhere(p, texts) ==
    \A i \in 1..Len(p), j \in 1..Len(texts) : ~Contains(p[i].text, texts[j])

\* C5: click_text_global, given labels that no element of the main document
\* or of a frame matches, returns False, delivers no click and leaves the
\* page as it was.
C5_NoMatchFailsQuietly ==
    (call.fn = "click_text_global" /\ NoMatchAnywhere(call.before, call.texts))
        => (~call.ok /\ call.clicked = 0 /\ page = call.before)

\* C5's case: the call ran on a page that has elements, one of them in a
\* frame, none of which matches a label.
C5_Witness ==
    /\ call.fn = "click_text_global"
    /\ NoMatchAnywhere(call.before, call.texts)
    /\ \E i \in 1..Len(call.before) : call.before[i].frame > 0
    /\ \E i \in 1..Len(call.before) : call.before[i].frame = 0
    /\ ~call.ok

\* The search the claim C9 describes: click_by_text's plan in the main
\* document, then the same plan (both roles) in every frame in order.
IdenticalSearchPlan(texts) ==
    ClickByTextPlan(0, texts, DefaultRoles)
    \o Flatten([f \in 1..MaxFrames |-> ClickByTextPlan(f, texts, DefaultRoles)])

\* C9 (as claimed): when the main-document search fails, click_text_global
\* repeats the identical search (same labels, same strategies, both the button
\* and the link role, same order) in every frame in document order; so it
\* returns what the identical search returns and clicks what it clicks.
C9_FrameSearchIsIdentical ==
    call.fn = "click_text_global" =>
        LET r == RunPlan(call.before, IdenticalSearchPlan(call.texts))
        IN  call.ok = r.ok /\ call.clicked = r.clicked

HelperNames ==
    {"click_by_text", "click_text_global", "select_hours", "click_submit_fallback",
     "click_row_btn"}

\* The candidates of a helper call: every locator its loops can reach.
Candidates(c) ==
    CASE c.fn = "click_by_text" -> ClickByTextPlan(0, c.texts, DefaultRoles)
      [] c.fn = "click_text_global" ->
             ClickByTextPlan(0, c.texts, DefaultRoles) \o FramesPlan(c.texts)
      [] c.fn = "select_hours" ->
             SelectHoursPlan(c.texts) \o ClickByTextPlan(0, c.texts, DefaultRoles)
             \o FramesPlan(c.texts)
      [] c.fn = "click_submit_fallback" -> SubmitPlan
      [] c.fn = "click_row_btn" -> RowPlan(c.row)
      [] OTHER -> <<>>

\* C10 (as claimed): a helper returns False only after every one of its
\* candidates has been attempted.
C10_FalseOnlyAfterEveryCandidate ==
    (call.fn \in HelperNames /\ ~call.ok) => call.attempts = Candidates(call)

(***************************************************************************)
(* Session establishment: is_logged_in, cookie_login, password_login.      *)
(***************************************************************************)
\* ログアウト, マイページ, アカウント, お知らせ
Markers == <<"logout", "mypage", "account", "oshirase">>

is_logged_in(p) ==
    \E i \in 1..Len(Markers) : FirstVisible(p, Key(0, 0, "text", Markers[i]))

Check(p) == IF is_logged_in(p) THEN "check_true" ELSE "check_false"

\* What a login function leaves: its result, what it did in order, and the
\* page the browser shows when it returns.
AuthResult(ret, ev, p) == [ret |-> ret, ev |-> ev, page |-> p]

\* A mutant of cookie_login: injected cookies count as a session.
cookie_login_TrustsInjection(cookie, addOk, p0, p1, p2) ==
    IF cookie = <<>> THEN AuthResult(FALSE, <<>>, p0)
    ELSE IF ~addOk THEN AuthResult(FALSE, <<"add_cookies_failed">>, p0)
    ELSE AuthResult(TRUE, <<"add_cookies", "goto_index", "snap", Check(p1)>>, p1)

\* A mutant of cookie_login: the login entry point is visited whatever the
\* first check says.
cookie_login_AlwaysBoth(cookie, addOk, p0, p1, p2) ==
    IF cookie = <<>> THEN AuthResult(FALSE, <<>>, p0)
    ELSE IF ~addOk THEN AuthResult(FALSE, <<"add_cookies_failed">>, p0)
    ELSE AuthResult(is_logged_in(p2),
                    <<"add_cookies", "goto_index", "snap", Check(p1),
                      "goto_login", "snap", Check(p2)>>, p2)

\* cookie_login.  addOk: context.add_cookies did not raise; p0: the page at the
\* call; p1, p2: the pages GAME_INDEX_URL and LOGIN_URL answer with.
cookie_login(cookie, addOk, p0, p1, p2) ==
    IF cookie = <<>> THEN AuthResult(FALSE, <<>>, p0)
    ELSE LET all_cookies == parse_cookie_string(cookie, CookieDomains[1])
                            \o parse_cookie_string(cookie, CookieDomains[2])
         IN  IF all_cookies = <<>> THEN AuthResult(FALSE, <<>>, p0)
             ELSE IF ~addOk THEN AuthResult(FALSE, <<"add_cookies_failed">>, p0)
             ELSE IF is_logged_in(p1)
                  THEN AuthResult(TRUE, <<"add_cookies", "goto_index", "snap",
                                          "check_true">>, p1)
                  ELSE AuthResult(is_logged_in(p2),
                                  <<"add_cookies", "goto_index", "snap", "check_false",
                                    "goto_login", "snap", Check(p2)>>, p2)

\* メールアドレス, ログインID, アカウントID, ID, メール
EMAIL_LABELS == <<"mail_address", "login_id", "account_id", "ID", "mail">>
\* パスワード, Password
PWD_LABELS == <<"password", "Password">>
\* ログイン, ログインする, サインイン, ログオン, ログインへ
LOGIN_TEXTS == <<"login", "login_suru", "sign_in", "logon", "login_he">>

\* fill() waits for the field to be visible, enabled and editable; it sends
\* no pointer event, so a field that another element covers is filled.
Fillable == {"ok", "blocked", "closing", "slow"}

\* One fill attempt: if loc.count() > 0: loc.first.fill(...); a fill that
\* raises (the first match is a checkbox or a radio, or the field is not
\* editable in time) goes on to the next locator.
FillOk(p, k) ==
    /\ Count(p, k) > 0
    /\ p[First(p, k)].kind \in FillKinds
    /\ StatusAt(p[First(p, k)], k) \in Fillable

\* The label loop, then (if nothing was filled) the css loop.
Filled(p, labels, css) ==
    \/ \E i \in 1..Len(labels) : FillOk(p, Key(0, 0, "by_label", labels[i]))
    \/ FillOk(p, Key(0, 0, css, ""))

\* A mutant of password_login: the form is loaded whatever is configured.
password_login_SkipsConfigCheck(email, password, p0, p1, p2) ==
    AuthResult(is_logged_in(p2), <<"goto_login", "snap", "snap", Check(p2)>>, p2)

\* A mutant of password_login: Enter is pressed after a click too.
password_login_AlwaysEnter(email, password, p0, p1, p2) ==
    IF email = "" \/ password = "" THEN AuthResult(FALSE, <<>>, p0)
    ELSE LET c == click_by_text(p1, LOGIN_TEXTS)
             after == IF PageClosed(c.page) THEN c.page ELSE p2
         IN  AuthResult(is_logged_in(after),
                    <<"goto_login", "snap">>
                    \o (IF Filled(p1, PWD_LABELS, "css_pwd") THEN <<"fill_pwd">> ELSE <<>>)
                    \o (IF c.ok THEN <<"click_login">> ELSE <<>>)
                    \o <<"press_enter", "snap", Check(after)>>, after)

\* password_login.  p0: the page at the call; p1: the page LOGIN_URL answers
\* with; p2: the page the browser shows after the form was submitted.  Enter
\* on a page that a click closed raises and submits nothing.
password_login(email, password, p0, p1, p2) ==
    IF email = "" \/ password = "" THEN AuthResult(FALSE, <<>>, p0)
    ELSE Only({
           LET filled_email == Filled(p1, EMAIL_LABELS, "css_email")
               filled_pwd == Filled(p1, PWD_LABELS, "css_pwd")
               clicked == c.ok
               enter == ~clicked /\ filled_pwd
               after == IF PageClosed(c.page) THEN c.page
                        ELSE IF c.delivered # <<>> \/ enter THEN p2 ELSE c.page
           IN  AuthResult(is_logged_in(after),
                          <<"goto_login", "snap">>
                          \o (IF filled_email THEN <<"fill_email">> ELSE <<>>)
                          \o (IF filled_pwd THEN <<"fill_pwd">> ELSE <<>>)
                          \o (IF clicked THEN <<"click_login">> ELSE <<>>)
                          \o (IF enter THEN <<"press_enter">> ELSE <<>>)
                          \o <<"snap", Check(after)>>,
                          after)
           : c \in {click_by_text(p1, LOGIN_TEXTS)} })

(***************************************************************************)
(* The pages the site answers with during a run.  A control whose click    *)
(* closes the page stands on a login form only: password_login catches     *)
(* every exception a closed page raises and returns False, while after it  *)
(* goto() and scroll_to_bottom() let the exception through to main().      *)
(***************************************************************************)
LoggedInMark == Elem(0, 0, "div", "logout", "ok")

\* What LOGIN_URL and the index answer with while a session is established.
AuthPages ==
    { <<>>,
      \* a page of the logged-in panel, with a row of the game index
      <<LoggedInMark, Elem(0, 1, "div", "waters", "ok"),
        Elem(0, 1, "button", "game_kanri", "ok")>>,
      \* a logged-in marker that is in the DOM but not shown
      <<Elem(0, 0, "div", "oshirase", "hidden")>>,
      \* the login form
      <<Elem(0, 0, "input_email", "mail_address", "ok"),
        Elem(0, 0, "input_password", "password", "ok"),
        Elem(0, 0, "button", "login", "ok")>>,
      \* a login form without labels and without a button
      <<Elem(0, 0, "input_email", "", "ok"), Elem(0, 0, "input_password", "", "ok")>>,
      \* a login form whose id field is labelled アカウントID
      <<Elem(0, 0, "input_email", "account_id", "ok"),
        Elem(0, 0, "button", "login", "blocked")>>,
      \* a login form whose button is covered
      <<Elem(0, 0, "input_password", "password", "ok"),
        Elem(0, 0, "button", "login", "blocked")>>,
      \* a page whose only control is a box labelled パスワード
      <<Elem(0, 0, "checkbox", "password", "ok")>>,
      \* a login form under a banner that covers its fields and its button
      <<Elem(0, 0, "input_email", "mail_address", "blocked"),
        Elem(0, 0, "input_password", "password", "blocked"),
        Elem(0, 0, "button", "login", "blocked")>>,
      \* a login form whose fields are disabled, and one whose button is in
      \* the DOM but not shown
      <<Elem(0, 0, "input_password", "password", "disabled"),
        Elem(0, 0, "button", "login", "ok")>>,
      <<Elem(0, 0, "input_password", "password", "ok"),
        Elem(0, 0, "button", "login", "hidden")>>,
      \* a login form whose button closes the window, and one whose button
      \* starts a navigation that is slow to commit
      <<Elem(0, 0, "input_password", "password", "ok"),
        Elem(0, 0, "button", "login", "closing")>>,
      <<Elem(0, 0, "input_password", "password", "ok"),
        Elem(0, 0, "button", "login", "slow")>> }

\* What GAME_INDEX_URL answers with.
IndexPages ==
    { <<>>,
      <<LoggedInMark, Elem(0, 1, "div", "waters", "ok"),
        Elem(0, 1, "button", "game_kanri", "ok")>> }

\* The game-management page and the pages behind its detail and contract links.
MgmtPages ==
    { <<>>,
      <<Elem(0, 0, "a", "upgrade_kigen_enchou", "ok")>>,
      <<Elem(0, 0, "a", "shousai", "ok"), Elem(0, 0, "a", "keiyaku", "ok")>> }

\* The pages of the extension wizard.
WizardPages ==
    { <<>>,
      \* the extend page
      <<Elem(0, 0, "button", "kigen_wo_enchou_suru", "ok")>>,
      \* the extend page while an overlay still covers its button
      <<Elem(0, 0, "button", "kigen_wo_enchou_suru", "blocked")>>,
      \* the duration page
      <<Elem(0, 0, "radio", "+72jikan_enchou", "ok"),
        CheckBox("checkbox", "kiyaku_ni_doui_shimasu", "ok", FALSE),
        Elem(0, 0, "button", "kakunin_gamen_ni_susumu", "ok")>>,
      \* confirmation pages
      <<Elem(0, 0, "button", "enchou_wo_kakutei_suru", "ok")>>,
      <<Elem(1, 0, "button", "enchou_suru", "ok")>>,
      <<Elem(0, 0, "submit_button", "soushin", "blocked"),
        Elem(0, 0, "input_submit", "soushin", "ok")>>,
      <<Elem(0, 0, "primary_link", "soushin", "ok")>> }

RunPages == AuthPages \cup IndexPages \cup MgmtPages \cup WizardPages

(***************************************************************************)
(* The outcome log: write_success_md.                                      *)
(***************************************************************************)
\* The zones of the zone database the model knows.  Asia/Tokyo has a fixed
\* offset; America/New_York leaves daylight saving time at second 2 of the
\* model's clock.
KnownZones == {"Asia/Tokyo", "America/New_York"}
UtcOffset(tz, utc) ==
    IF tz = "Asia/Tokyo" THEN 9 * 3600
    ELSE IF utc < 2 THEN -4 * 3600 ELSE -5 * 3600

\* tz = ZoneInfo(tzname) if ZoneInfo else None, None when ZoneInfo raises.
HasZone(tzname, zoneinfo) == zoneinfo /\ tzname \in KnownZones

\* now.strftime('%Y-%m-%d %H:%M:%S'): the local wall time, to the second.
LocalTime(utc, tzname, zoneinfo) ==
    IF HasZone(tzname, zoneinfo) THEN utc + UtcOffset(tzname, utc) ELSE utc

\* f"{timestamp} {suffix} 成功\n"
Line(utc, tzname, zoneinfo) ==
    [ts |-> LocalTime(utc, tzname, zoneinfo),
     zone |-> IF HasZone(tzname, zoneinfo) THEN tzname ELSE "UTC",
     status |-> "seikou"]

\* A mutant of write_success_md: the file is opened with "w".
write_success_md_Truncates(lines, utc, tzname, zoneinfo) ==
    <<Line(utc, tzname, zoneinfo)>>

\* write_success_md: open(filepath, "a") and write one line.
write_success_md(lines, utc, tzname, zoneinfo) ==
    Append(lines, Line(utc, tzname, zoneinfo))

(***************************************************************************)
(* The wizard: open_game_management, click_upgrade_or_extend,              *)
(* accept_required_checks.                                                 *)
(***************************************************************************)
UPGRADE_TEXTS ==
    << "upgrade_kigen_enchou",        \* アップグレード・期限延長
       "upgrade_slash_kigen_enchou",  \* アップグレード/期限延長
       "upgrade_sp_kigen_enchou",     \* アップグレード ・ 期限延長
       "kigen_enchou",                \* 期限延長
       "kigen_wo_enchou_suru",        \* 期限を延長する
       "koushin",                     \* 更新
       "koushin_tetsuzuki",           \* 更新手続き
       "plan_henkou_kigen_enchou",    \* プラン変更・期限延長
       "plan_henkou" >>               \* プラン変更

\* 詳細, 管理, 設定, ゲーム詳細, サービス詳細, 契約情報, メニュー
DETAIL_TEXTS ==
    <<"shousai", "kanri", "settei", "game_shousai", "service_shousai",
      "keiyaku_jouhou", "menu">>

\* 契約, 契約情報, 料金, お支払い, 支払い, 請求, 更新, 延長, プラン変更
CONTRACT_TEXTS ==
    <<"keiyaku", "keiyaku_jouhou", "ryoukin", "oshiharai", "shiharai", "seikyuu",
      "koushin", "enchou", "plan_henkou">>


\* page.locator("tbody tr").count(): rows are numbered from 1; a locator of
\* the page does not enter its frames.
RowCount(p) ==
    LET rs == {p[i].row : i \in {j \in 1..Len(p) : p[j].frame = 0}} IN
    CHOOSE n \in rs \cup {0} : \A m \in rs \cup {0} : m <= n

\* page.locator("tbody tr").filter(has_text=TARGET_GAME).first: 0 if none.
\* has_text reads the text of the row: not the name of an image link.  On a
\* closed page tbody_rows.count() raises and target_row is None.
TargetRow(p, target) ==
    LET rs == {p[i].row : i \in {j \in 1..Len(p) :
                               /\ p[j].frame = 0 /\ p[j].row > 0
                               /\ p[j].status # "gone"
                               /\ p[j].kind \in StratKinds("text")
                               /\ Contains(p[j].text, target)}}
    IN  IF target = "" \/ PageClosed(p) \/ rs = {} THEN 0 ELSE Min(rs)

\* The six page-wide selectors of open_game_management.
FirstMgmtPlan ==
    << Key(0, AnyRow, "row_button", GameKanri), Key(0, AnyRow, "row_rolebtn", GameKanri),
       Key(0, AnyRow, "row_a", GameKanri), Key(0, 0, "row_button", GameKanri),
       Key(0, 0, "row_rolebtn", GameKanri), Key(0, 0, "row_a", GameKanri) >>

\* No click was tried.
NoClick(p) == Result(FALSE, <<>>, 0, <<>>, p)

\* for i in range(min(cnt, 10)): if click_row_btn(rows.nth(i)): return True
RECURSIVE ScanRows(_, _, _)
ScanRows(p, i, n) ==
    IF i > n THEN NoClick(p)
    ELSE Only({ IF r.ok THEN r ELSE Then(r, ScanRows(r.page, i + 1, n))
                : r \in {click_row_btn(p, i)} })

\* n = min(cnt, 10); rows.count() raises on a closed page and the scan is
\* skipped.
ScanCount(p) ==
    IF PageClosed(p) THEN 0
    ELSE IF RowCount(p) < MaxScanRows THEN RowCount(p) ELSE MaxScanRows

\* The first-control stage and the scan of open_game_management.
MgmtFallbacks(p) ==
    Only({ IF first.ok THEN first
           ELSE Then(first, ScanRows(first.page, 1, ScanCount(first.page)))
           : first \in {RunPlan(p, FirstMgmtPlan)} })

\* A mutant of open_game_management: the target's row gets no preference.
open_game_management_IgnoresTarget(p, target) == MgmtFallbacks(p)

open_game_management(p, target) ==
    Only({ IF inrow.ok THEN inrow ELSE Then(inrow, MgmtFallbacks(inrow.page))
           : inrow \in {LET t == TargetRow(p, target)
                        IN  IF t # 0 THEN click_row_btn(p, t) ELSE NoClick(p)} })

\* page.locator('text=TARGET_GAME').first: the index of the first element of
\* the main document that carries the name of the game, in a row or not; 0 if
\* there is none or no game is configured.
TargetContainer(p, target) ==
    IF target = "" THEN 0 ELSE First(p, Key(0, 0, "text", target))

\* parent.locator('text=t'), parent being
\* container.locator('xpath=ancestor::*[self::tr or contains(@class,"card")
\* or contains(@class,"item")][1]'): the nearest block or row around element
\* c; without one the locator matches nothing.
ParentKey(p, c, t) ==
    IF p[c].card # 0 THEN CardKey(p[c].card, "text", t)
    ELSE Key(0, IF p[c].row # 0 THEN p[c].row ELSE NoRow, "text", t)

\* for t in DETAIL_TEXTS: try_click(parent.locator('text=t')) or
\* try_click(container.locator('text=t'))
DetailPlan(p, c) ==
    Flatten([i \in 1..Len(DETAIL_TEXTS) |->
                <<ParentKey(p, c, DETAIL_TEXTS[i]), SelfKey(c, "text", DETAIL_TEXTS[i])>>])

\* open_game_detail: a detail label in the block or row around the first
\* element that carries the name of the game, or in that element; else
\* anywhere.  With a game configured, container.count() raises on a closed
\* page and the except clause ends the function before any click is tried.
open_game_detail(p0, target) ==
    IF target # "" /\ PageClosed(p0) THEN NoClick(p0)
    ELSE
    Only({ IF near.ok THEN near
           ELSE Then(near, click_text_global(near.page, DETAIL_TEXTS))
           : near \in {Only({ LET c == TargetContainer(p, target)
                              IN  IF c # 0 THEN RunPlan(p, DetailPlan(p, c))
                                  ELSE NoClick(p)
                              : p \in {p0} })} })

\* What click_upgrade_or_extend leaves: its result, the searches it made in
\* order, the page and the element that received its last click, and the
\* captures it requested (snap and dump_html of open_upgrade_extend_failed).
NavResult(ok, path, p, elem) ==
    [ok |-> ok, path |-> path, page |-> p, clicked |-> elem # 0, elem |-> elem,
     diag |-> IF ok THEN {} ELSE {"snap:open_upgrade_extend_failed",
                                  "dump:open_upgrade_extend_failed"}]

\* A mutant of click_upgrade_or_extend: an opened detail page counts.
click_upgrade_or_extend_DetailCounts(p0, p1, p2, target) ==
    Only({ IF u0.ok THEN NavResult(TRUE, <<"upgrade">>, u0.page, u0.clicked)
           ELSE Only({ NavResult(d0.ok, <<"upgrade", "detail">>, d0.page, d0.clicked)
                       : d0 \in {open_game_detail(u0.page, target)} })
           : u0 \in {click_text_global(p0, UPGRADE_TEXTS)} })

\* click_upgrade_or_extend.  p0: the page at the call; p1: the page the site
\* answers a click on a detail label with; p2: the page it answers a click
\* on a contract label with.
click_upgrade_or_extend(p0, p1, p2, target) ==
    Only({ IF u0.ok THEN NavResult(TRUE, <<"upgrade">>, u0.page, u0.clicked)
           ELSE Only({
             IF ~d0.ok THEN NavResult(FALSE, <<"upgrade", "detail">>, d0.page, 0)
             ELSE Only({
               IF u1.ok
               THEN NavResult(TRUE, <<"upgrade", "detail", "upgrade">>, u1.page, u1.clicked)
               ELSE Only({
                 IF ~c1.ok
                 THEN NavResult(FALSE, <<"upgrade", "detail", "upgrade", "contract">>,
                                c1.page, 0)
                 ELSE Only({
                   NavResult(u2.ok,
                             <<"upgrade", "detail", "upgrade", "contract", "upgrade">>,
                             u2.page, u2.clicked)
                   : u2 \in {click_text_global(p2, UPGRADE_TEXTS)} })
                 : c1 \in {click_text_global(u1.page, CONTRACT_TEXTS)} })
               : u1 \in {click_text_global(p1, UPGRADE_TEXTS)} })
             : d0 \in {open_game_detail(u0.page, target)} })
           : u0 \in {click_text_global(p0, UPGRADE_TEXTS)} })

\* 同意, 確認, 承諾, 同意します, 確認しました, 規約, 注意事項
AgreeKeywords ==
    <<"doui", "kakunin", "shoudaku", "doui_shimasu", "kakunin_shimashita", "kiyaku",
      "chuui_jikou">>

MaxChecks == 5

\* page.locator('label:has-text(k)').first.click(timeout=800): a click on the
\* label of a checkbox toggles the checkbox.
ClickLabel(p, k) == AfterTry(p, Key(0, 0, "sel_label", k))

RECURSIVE ClickLabels(_, _)
ClickLabels(p, ks) ==
    IF ks = <<>> THEN p ELSE ClickLabels(ClickLabel(p, Head(ks)), Tail(ks))

\* The indices of input[type="checkbox"], in document order.
RECURSIVE BoxIndices(_, _)
BoxIndices(p, i) ==
    IF i > Len(p) THEN <<>>
    ELSE IF p[i].frame = 0 /\ p[i].kind \in CheckKinds THEN <<i>> \o BoxIndices(p, i + 1)
    ELSE BoxIndices(p, i + 1)

\* if el.is_visible() and not el.is_checked(): el.check(timeout=800).
\* check() clicks the box: the click has its effect (the box is checked, the
\* page is closed) also when check() raises after it.
CheckBoxAt(p, i) ==
    IF p[i].kind = "checkbox" /\ p[i].status \in Actionable /\ ~p[i].checked
    THEN Click(p, i)
    ELSE p

RECURSIVE CheckBoxes(_, _)
CheckBoxes(p, is) ==
    IF is = <<>> THEN p ELSE CheckBoxes(CheckBoxAt(p, Head(is)), Tail(is))

accept_required_checks(p) ==
    LET q == ClickLabels(p, AgreeKeywords)
        boxes == BoxIndices(q, 1)
        count == IF Len(boxes) < MaxChecks THEN Len(boxes) ELSE MaxChecks
    IN  CheckBoxes(q, SubSeq(boxes, 1, count))

(***************************************************************************)
(* SpecChain, continued: the navigation functions called on one page.      *)
(***************************************************************************)
\* accept_required_checks on a page with checkboxes.
CallAcceptRequiredChecks ==
    /\ call.fn = "none"
    /\ page \in CheckPages
    /\ call' = [NoCall EXCEPT !.fn = "accept_required_checks", !.ok = TRUE,
                              !.before = page]
    /\ page' = accept_required_checks(page)
    /\ UNCHANGED <<parsevars, runvars>>

\* click_upgrade_or_extend on a game-management page; the site answers a
\* detail click with p1 and a contract click with p2.
CallClickUpgradeOrExtend ==
    /\ call.fn = "none"
    /\ page \in NavPages
    /\ \E target \in {"", "waters"}, p1 \in NavPages, p2 \in NavPages :
          \E r \in {click_upgrade_or_extend(page, p1, p2, target)} :
              /\ call' = [fn |-> "click_upgrade_or_extend", texts |-> <<target>>,
                          row |-> 0, ok |-> r.ok, attempts |-> r.path,
                          clicked |-> r.elem, delivered |-> <<>>, before |-> page,
                          pages |-> <<page, p1, p2>>,
                          on |-> r.page, diag |-> r.diag]
              /\ page' = r.page
    /\ UNCHANGED <<parsevars, runvars>>

\* open_game_management with TARGET_GAME = target.
CallOpenGameManagement ==
    /\ call.fn = "none"
    /\ \E target \in {"", "waters"} :
          Called("open_game_management", <<target>>, 0, open_game_management(page, target))

NextChain ==
    \/ CallClickByText
    \/ CallClickTextGlobal
    \/ CallSelectHours
    \/ CallClickSubmitFallback
    \/ CallClickRowBtn
    \/ CallOpenGameManagement
    \/ CallClickUpgradeOrExtend
    \/ CallAcceptRequiredChecks

SpecChain == InitChain /\ [][NextChain]_vars

(***************************************************************************)
(* main(): one run of the process.  The parts of main() and the end of     *)
(* do_extend_hours that the source file does not hold follow the           *)
(* specification document: the scheduling gate, the order of the two login *)
(* paths, the final submission and the exit conditions.                    *)
(***************************************************************************)
MinIntervalHours == 24

\* The scheduling gate: the last line of the log is younger than the minimum
\* interval.
TooSoon_AnyEntry(lines, utc, c) == lines # <<>>

TooSoon(lines, utc, c) ==
    /\ lines # <<>>
    /\ LocalTime(utc, c.tz, c.zoneinfo) - lines[Len(lines)].ts < MinIntervalHours * 3600

\* Where main() goes after cookie_login returned ret.
AfterCookieLogin_Always(ret) == "password_login"

AfterCookieLogin(ret) == IF ret THEN "ensure_index" ELSE "password_login"

Step(name, ok, control) == [step |-> name, ok |-> ok, control |-> control]

\* A call of cookie_login or password_login: its result, what it did, and the
\* form LOGIN_URL answered with (<<>> if it was not loaded).
AuthCall(r, form) == [called |-> TRUE, ret |-> r.ret, ev |-> r.ev, form |-> form]

Navigates(ev) ==
    \E i \in 1..Len(ev) : ev[i] \in {"add_cookies", "goto_index", "goto_login"}

Gate ==
    /\ pc = "gate"
    /\ IF TooSoon(log, clock, cfg) /\ ~cfg.override
       THEN pc' = "done" /\ exit' = "skipped_too_soon"
       ELSE pc' = "cookie_login" /\ exit' = exit
    /\ UNCHANGED <<helpervars, parsevars, cfg, clock, log, hist, auth, steps, diag, nav>>

CookieLogin ==
    /\ pc = "cookie_login"
    /\ \E addOk \in BOOLEAN, p1 \in AuthPages, p2 \in AuthPages :
          \E r \in {cookie_login(cfg.cookie, addOk, page, p1, p2)} :
              /\ auth' = [auth EXCEPT !.cookie = AuthCall(r, <<>>)]
              /\ page' = r.page
              /\ nav' = (nav \/ Navigates(r.ev))
              /\ pc' = AfterCookieLogin(r.ret)
    /\ UNCHANGED <<call, parsevars, cfg, clock, log, hist, steps, diag, exit>>

PasswordLogin ==
    /\ pc = "password_login"
    /\ \E p1 \in AuthPages, p2 \in AuthPages :
          \E r \in {password_login(cfg.email, cfg.password, page, p1, p2)} :
              /\ auth' = [auth EXCEPT !.pwd =
                                AuthCall(r, IF r.ev = <<>> THEN <<>> ELSE p1)]
              /\ page' = r.page
              /\ nav' = (nav \/ Navigates(r.ev))
              /\ pc' = IF r.ret THEN "ensure_index" ELSE "done"
              /\ exit' = IF r.ret THEN exit ELSE "auth_failed"
    /\ UNCHANGED <<call, parsevars, cfg, clock, log, hist, steps, diag>>

\* ensure_on_game_index: goto(GAME_INDEX_URL), snap.
EnsureIndex ==
    /\ pc = "ensure_index"
    /\ page' \in IndexPages
    /\ nav' = TRUE
    /\ pc' = "open_mgmt"
    /\ UNCHANGED <<call, parsevars, cfg, clock, log, hist, auth, steps, diag, exit>>

OpenMgmt ==
    /\ pc = "open_mgmt"
    /\ \E r \in {open_game_management(page, cfg.target)} :
           /\ steps' = Append(steps, Step("open_mgmt", r.ok, TRUE))
           /\ IF r.ok
              THEN page' \in MgmtPages /\ pc' = "upgrade" /\ exit' = exit /\ diag' = diag
              ELSE /\ page' = r.page
                   /\ pc' = "done"
                   /\ exit' = "mgmt_not_found"
                   /\ diag' = diag \cup {"game_management_not_found"}
    /\ UNCHANGED <<call, parsevars, cfg, clock, log, hist, auth, nav>>

Upgrade ==
    /\ pc = "upgrade"
    /\ \E p1 \in MgmtPages, p2 \in MgmtPages :
          \E r \in {click_upgrade_or_extend(page, p1, p2, cfg.target)} :
              /\ steps' = Append(steps, Step("upgrade", r.ok, TRUE))
              /\ IF r.ok
                 THEN page' \in WizardPages /\ pc' = "ext_entry" /\ exit' = exit
                      /\ diag' = diag
                 ELSE /\ page' = r.page
                      /\ pc' = "done"
                      /\ exit' = "upgrade_not_found"
                      /\ diag' = diag \cup {"open_upgrade_extend_failed"}
    /\ UNCHANGED <<call, parsevars, cfg, clock, log, hist, auth, nav>>

\* The page once it has finished loading: what a click timed out on for not
\* being actionable in time can be clicked.
Settled(p) ==
    [i \in 1..Len(p) |-> IF p[i].status = "blocked" THEN [p[i] EXCEPT !.status = "ok"]
                         ELSE p[i]]

\* A mutant of the soft step: a failed step ends the run.
SoftStep_AbortsOnFailure(name, res, next, captures) ==
    \E r \in {res} :
        /\ steps' = Append(steps, Step(name, r.ok, TRUE))
        /\ IF r.ok THEN page' \in WizardPages \cup {r.page} ELSE page' = r.page
        /\ pc' = IF r.ok THEN next ELSE "done"
        /\ exit' = IF r.ok THEN exit ELSE "step_failed"
        /\ diag' = IF r.ok THEN diag ELSE diag \cup captures
        /\ UNCHANGED <<call, parsevars, cfg, clock, log, hist, auth, nav>>

\* One soft step of do_extend_hours: a click through helper result r; a
\* failure is logged, takes the captures of the step and the run goes on.
SoftStep(name, res, next, captures) ==
    \E r \in {res} :
        /\ steps' = Append(steps, Step(name, r.ok, TRUE))
        /\ IF r.ok THEN page' \in WizardPages \cup {r.page}
           ELSE page' \in {r.page, Settled(r.page)}
        /\ pc' = next
        /\ diag' = IF r.ok THEN diag ELSE diag \cup captures
        /\ UNCHANGED <<call, parsevars, cfg, clock, log, hist, auth, nav, exit>>

ExtEntry ==
    /\ pc = "ext_entry"
    /\ SoftStep("entry", click_text_global(page, ENTRY_TEXTS), "ext_select", {})

\* if not select_hours(page, hours): log(...); snap(page, f"failed_select_{hours}h")
ExtSelect ==
    /\ pc = "ext_select"
    /\ SoftStep("select", select_hours(page, HoursTexts), "ext_checks1",
                {"failed_select_72h"})

\* accept_required_checks, the first and the second time.
ChecksStep(next) ==
    /\ steps' = Append(steps, Step("checks", TRUE, TRUE))
    /\ page' = accept_required_checks(page)
    /\ pc' = next
    /\ UNCHANGED <<call, parsevars, cfg, clock, log, hist, auth, diag, nav, exit>>

ExtChecks1 ==
    /\ pc = "ext_checks1"
    /\ ChecksStep("ext_confirm")

ExtConfirm ==
    /\ pc = "ext_confirm"
    /\ SoftStep("confirm", click_text_global(page, CONFIRM_TEXTS), "ext_checks2", {})

ExtChecks2 ==
    /\ pc = "ext_checks2"
    /\ ChecksStep("ext_final")

\* A final commit control is on the page, in the main document or in a
\* frame: an element that carries a final label, or a submit control.
SubmitKinds == {"submit_button", "input_submit", "primary_button", "primary_link"}
HasFinalControl(p) ==
    \E i \in 1..Len(p) :
        \/ p[i].kind \in SubmitKinds
        \/ \E j \in 1..Len(FINAL_TEXTS) : Contains(p[i].text, FINAL_TEXTS[j])

\* The final submission: a final label, else the submit fallback.
final_submit(p) ==
    Only({ IF g.ok THEN g ELSE Then(g, click_submit_fallback(g.page))
           : g \in {click_text_global(p, FINAL_TEXTS)} })

ExtFinal ==
    /\ pc = "ext_final"
    /\ \E r \in {final_submit(page)} :
           /\ steps' = Append(steps, Step("final", r.ok, HasFinalControl(page)))
           /\ call' = [fn |-> "final_submit", texts |-> FINAL_TEXTS, row |-> 0,
                       ok |-> r.ok, attempts |-> r.attempts, clicked |-> r.clicked,
                       delivered |-> r.delivered, before |-> page]
           /\ IF r.ok
              THEN page' \in WizardPages /\ pc' = "write" /\ exit' = exit /\ diag' = diag
              ELSE /\ page' = r.page
                   /\ pc' = "done"
                   /\ exit' = "submit_not_found"
                   /\ diag' = diag \cup {"extend_submit_not_found"}
    /\ UNCHANGED <<parsevars, cfg, clock, log, hist, auth, nav>>

WriteSuccess ==
    /\ pc = "write"
    /\ log' = write_success_md(log, clock, cfg.tz, cfg.zoneinfo)
    /\ hist' = Append(hist, [utc |-> clock, line |-> Line(clock, cfg.tz, cfg.zoneinfo)])
    /\ pc' = "done"
    /\ exit' = "success"
    /\ UNCHANGED <<helpervars, parsevars, cfg, clock, auth, steps, diag, nav>>

\* The log files a run can find: what earlier runs wrote, one hour short of
\* the minimum interval ago or one hour more than it ago.
RecentUtc == 0 - (MinIntervalHours - 1) * 3600
OldUtc == 0 - (MinIntervalHours + 1) * 3600
InitLogs(tz, zi) ==
    { <<>>, <<Line(RecentUtc, tz, zi)>>, <<Line(OldUtc, tz, zi)>>,
      <<Line(OldUtc, tz, zi), Line(RecentUtc, tz, zi)>> }

CookieStrings == { <<>>, <<"a", "=", "b">>, <<"a">> }
Credentials == { <<"", "">>, <<"user", "">>, <<"user", "secret">> }

Cfg(c, cr, t, o, l) ==
    [cookie |-> c, email |-> cr[1], password |-> cr[2], target |-> t,
     tz |-> "Asia/Tokyo", zoneinfo |-> TRUE, override |-> o, log0 |-> l]

\* Every log and override with one way to sign in, and every way to sign in
\* with the logs that let a run through.
Configs ==
    { Cfg(<<"a", "=", "b">>, <<"user", "secret">>, "", o, l) :
        o \in BOOLEAN, l \in InitLogs("Asia/Tokyo", TRUE) }
    \cup
    { Cfg(c, cr, t, FALSE, l) :
        c \in CookieStrings, cr \in Credentials, t \in {"", "waters"},
        l \in {<<>>, <<Line(OldUtc, "Asia/Tokyo", TRUE)>>} }

Init ==
    /\ cfg \in Configs
    /\ pc = "gate"
    /\ clock = 0
    /\ log = cfg.log0
    /\ hist = <<>>
    /\ auth = NoAuth
    /\ steps = <<>>
    /\ diag = {}
    /\ nav = FALSE
    /\ exit = "none"
    /\ page = <<>>
    /\ call = NoCall
    /\ cookie_str = <<>>
    /\ cookies = NoCookies

Next ==
    \/ Gate
    \/ CookieLogin
    \/ PasswordLogin
    \/ EnsureIndex
    \/ OpenMgmt
    \/ Upgrade
    \/ ExtEntry
    \/ ExtSelect
    \/ ExtChecks1
    \/ ExtConfirm
    \/ ExtChecks2
    \/ ExtFinal
    \/ WriteSuccess

Spec == Init /\ [][Next]_vars

(***************************************************************************)
(* The Outcome Recorder on its own: N successful runs, one after the       *)
(* other, on a log that starts empty.  clock counts the seconds from       *)
(* 2026-11-01 05:59:58 UTC, two seconds before America/New_York leaves     *)
(* daylight saving time.                                                   *)
(***************************************************************************)
MaxClock == 4
MaxRuns == 3

\* LOG_TIMEZONE: the default, a zone with daylight saving time, and a name
\* ZoneInfo raises on.
ZoneNames == KnownZones \cup {"Mars/Phobos"}

InitRecorder ==
    /\ cfg \in { [DefaultCfg EXCEPT !.tz = z, !.zoneinfo = zi] :
                   z \in ZoneNames, zi \in BOOLEAN }
    /\ pc = "recorder"
    /\ clock = 0
    /\ log = <<>>
    /\ hist = <<>>
    /\ auth = NoAuth
    /\ steps = <<>>
    /\ diag = {}
    /\ nav = FALSE
    /\ exit = "none"
    /\ page = <<>>
    /\ call = NoCall
    /\ cookie_str = <<>>
    /\ cookies = NoCookies

\* A second passes.
Tick ==
    /\ pc = "recorder"
    /\ clock < MaxClock
    /\ clock' = clock + 1
    /\ UNCHANGED <<helpervars, parsevars, cfg, pc, log, hist, auth, steps, diag, nav, exit>>

\* A successful run ends: write_success_md().
RecordSuccess ==
    /\ pc = "recorder"
    /\ Len(hist) < MaxRuns
    /\ log' = write_success_md(log, clock, cfg.tz, cfg.zoneinfo)
    /\ hist' = Append(hist, [utc |-> clock, line |-> Line(clock, cfg.tz, cfg.zoneinfo)])
    /\ UNCHANGED <<helpervars, parsevars, cfg, pc, clock, auth, steps, diag, nav, exit>>

NextRecorder == Tick \/ RecordSuccess

SpecRecorder == InitRecorder /\ [][NextRecorder]_vars

(***************************************************************************)
(* Claims about the Outcome Recorder (SpecRecorder).                       *)
(***************************************************************************)
\* A line has the form '<timestamp> <zone-label> 成功'.
WellFormed(l) ==
    /\ l.ts \in Int
    /\ l.zone \in ZoneNames \cup {"UTC"}
    /\ l.status = "seikou"

\* After N calls the log holds exactly N lines, each well-formed, and the line
\* of every earlier call is still at its position, unchanged.
AppendOnly ==
    /\ Len(log) = Len(hist)
    /\ \A i \in 1..Len(log) : WellFormed(log[i]) /\ log[i] = hist[i].line

\* The offset of the log's zone at an instant: 0 when the log falls back to UTC.
LogOffset(utc) == LocalTime(utc, cfg.tz, cfg.zoneinfo) - utc

\* C4 (amended): the recorder is append-only: after N consecutive successful
\* runs on an empty log the log holds exactly N well-formed lines, every line
\* of an earlier call unchanged at its position, in the order the runs ended;
\* wherever the zone's UTC offset is the same at two runs (always, for the
\* default Asia/Tokyo and for UTC) their timestamps differ by the seconds
\* between the two calls: they do not decrease along the log, and they are
\* equal when both calls fall in one second.
C4_AppendOnly ==
    pc = "recorder" =>
        /\ AppendOnly
        /\ \A i, j \in 1..Len(log) :
              (i < j /\ LogOffset(hist[i].utc) = LogOffset(hist[j].utc))
                  => /\ log[i].ts <= log[j].ts
                     /\ log[j].ts - log[i].ts = hist[j].utc - hist[i].utc

\* C4's case: three runs in the default time zone, the first two within one
\* second.
C4_Witness ==
    /\ pc = "recorder"
    /\ Len(log) = 3
    /\ cfg.tz = "Asia/Tokyo" /\ cfg.zoneinfo
    /\ hist[1].utc = hist[2].utc /\ log[1].ts = log[2].ts
    /\ log[2].ts < log[3].ts

\* C4 (as claimed): the timestamps of the lines increase along the log,
\* whatever the zone.
C4_TimestampsAlwaysIncrease ==
    pc = "recorder" =>
        /\ AppendOnly
        /\ \A i, j \in 1..Len(log) : i < j => log[i].ts < log[j].ts

(***************************************************************************)
(* Claims about one run (Spec).                                            *)
(***************************************************************************)
Last(s) == s[Len(s)]
IndexOf(s, x) == Min({i \in 1..Len(s) : s[i] = x} \cup {Len(s) + 1})

\* The call returned True only on a positive check that came after every
\* cookie injection and every form submission of the call.
VerifiedAfter(a) ==
    /\ a.ev # <<>>
    /\ Last(a.ev) = "check_true"
    /\ \A i \in 1..Len(a.ev) - 1 : a.ev[i] # "check_true"

\* C1: cookie_login and password_login return True only if a call of
\* is_logged_in, made after the cookies were injected or the form was
\* submitted, returned True; injection or submission alone never does.
C1_AuthenticatedOnlyIfVerified ==
    /\ auth.cookie.ret => VerifiedAfter(auth.cookie)
                          /\ IndexOf(auth.cookie.ev, "add_cookies") < Len(auth.cookie.ev)
    /\ auth.pwd.ret => VerifiedAfter(auth.pwd)

\* C1's case: cookies were injected and the check failed, then the form was
\* submitted and the check succeeded.
C1_Witness ==
    /\ auth.cookie.called /\ ~auth.cookie.ret
    /\ IndexOf(auth.cookie.ev, "add_cookies") <= Len(auth.cookie.ev)
    /\ auth.pwd.ret
    /\ IndexOf(auth.pwd.ev, "click_login") <= Len(auth.pwd.ev)

\* C2: cookie login is attempted first whenever a cookie is configured,
\* whether or not credentials are configured too; password_login is attempted
\* if and only if cookie login did not verify as authenticated.
C2_CookieFirstPasswordIffNotVerified ==
    /\ auth.pwd.called => (auth.cookie.called /\ ~auth.cookie.ret)
    /\ (auth.cookie.called /\ ~auth.cookie.ret)
           => (auth.pwd.called \/ pc = "password_login")
    /\ (cfg.cookie # <<>> /\ pc \notin {"gate", "cookie_login"}
           /\ exit # "skipped_too_soon") => auth.cookie.called

\* C2's case: cookie and credentials are configured, the cookie did not
\* verify, and credential login was attempted.
C2_Witness ==
    /\ cfg.cookie # <<>> /\ cfg.email # "" /\ cfg.password # ""
    /\ IndexOf(auth.cookie.ev, "add_cookies") <= Len(auth.cookie.ev)
    /\ ~auth.cookie.ret
    /\ auth.pwd.called

\* The age of the last line of the log the run found.
Age == LocalTime(clock, cfg.tz, cfg.zoneinfo) - Last(cfg.log0).ts
Younger == cfg.log0 # <<>> /\ Age < MinIntervalHours * 3600
Older == cfg.log0 # <<>> /\ Age > MinIntervalHours * 3600

\* C3: when the last line of the log is younger than the minimum interval and
\* the override is unset, the run navigates nowhere and exits with
\* skipped-too-soon; when it is older, or the override is set, the run goes on
\* to session establishment.
C3_SchedulingGate ==
    pc # "gate" =>
        /\ (Younger /\ ~cfg.override)
               => /\ pc = "done" /\ exit = "skipped_too_soon"
                  /\ ~nav /\ page = <<>> /\ ~auth.cookie.called /\ log = cfg.log0
        /\ (Older \/ cfg.override)
               => /\ exit # "skipped_too_soon"
                  /\ pc = "cookie_login" \/ auth.cookie.called

\* C3's case: the log holds an old line and then a line one hour short of the
\* interval, and the run was skipped.
C3_Witness ==
    /\ Len(cfg.log0) = 2
    /\ Age = (MinIntervalHours - 1) * 3600
    /\ exit = "skipped_too_soon"

\* C6: when authentication succeeded and no final submission control is on
\* the page, in the document or in a frame, after every fallback was tried,
\* the run aborts with submission-not-found, a diagnostic capture is written,
\* and the log gets no line.
C6_NoSubmitControlAborts ==
    (steps # <<>> /\ Last(steps).step = "final" /\ ~Last(steps).control)
        => /\ auth.cookie.ret \/ auth.pwd.ret
           /\ pc = "done" /\ exit = "submit_not_found"
           /\ "extend_submit_not_found" \in diag
           /\ log = cfg.log0 /\ hist = <<>>

\* C6's case: the wizard ended on a page that has controls, none of them a
\* final one.
C6_Witness ==
    /\ steps # <<>> /\ Last(steps).step = "final" /\ ~Last(steps).control
    /\ page # <<>>
    /\ auth.pwd.ret
    /\ exit = "submit_not_found"

\* Neither a cookie nor credentials are configured.
Unconfigured == cfg.cookie = <<>> /\ (cfg.email = "" \/ cfg.password = "")

\* C7: when neither a cookie nor credentials are configured, cookie_login and
\* password_login both return False without a navigation or a cookie
\* injection, the run ends with failed authentication, and the log gets no
\* line.
C7_UnconfiguredFailsAtOnce ==
    Unconfigured =>
        /\ auth.cookie.called => (~auth.cookie.ret /\ auth.cookie.ev = <<>>)
        /\ auth.pwd.called => (~auth.pwd.ret /\ auth.pwd.ev = <<>>)
        /\ ~nav /\ page = <<>>
        /\ log = cfg.log0 /\ hist = <<>>
        /\ pc \in {"gate", "cookie_login", "password_login", "done"}
        /\ pc = "done" => exit = "auth_failed"

\* C7's case: EMAIL is set, PASSWORD and the cookie are not, and both logins
\* have returned.
C7_Witness ==
    /\ Unconfigured /\ cfg.email # ""
    /\ auth.cookie.called /\ auth.pwd.called
    /\ exit = "auth_failed"

(***************************************************************************)
(* Claims about the wizard (Spec).                                         *)
(***************************************************************************)
\* The steps of do_extend_hours in their fixed order, and where the run is
\* after each.
WizardOrder == <<"entry", "select", "checks", "confirm", "checks", "final">>
WizardPcs == <<"ext_entry", "ext_select", "ext_checks1", "ext_confirm", "ext_checks2",
               "ext_final">>

\* The steps recorded after open_game_management and click_upgrade_or_extend.
WizardSteps == IF Len(steps) > 2 THEN SubSeq(steps, 3, Len(steps)) ELSE <<>>
InWizard == Len(steps) >= 2 /\ steps[2].step = "upgrade" /\ steps[2].ok

StrategyOrder ==
    <<"role_button", "role_link", "text", "sel_a", "sel_button", "sel_input", "sel_label">>
LabelMajor(texts) ==
    [n \in 1..(Len(texts) * Len(StrategyOrder)) |->
        Key(0, 0, StrategyOrder[((n - 1) % Len(StrategyOrder)) + 1],
            texts[((n - 1) \div Len(StrategyOrder)) + 1])]

\* The pairs of an order are tried one after the other, each on the DOM the
\* tries before it left: the index of the first pair whose click succeeds
\* (0: none) and the DOM it is tried on.
RECURSIVE FirstSuccess(_, _, _)
FirstSuccess(p, plan, n) ==
    IF n > Len(plan) THEN [n |-> 0, page |-> p]
    ELSE IF try_click(p, plan[n]) THEN [n |-> n, page |-> p]
    ELSE FirstSuccess(AfterTry(p, plan[n]), plan, n + 1)

\* C12: click_by_text is label-major, strategy-minor: it clicks the match of
\* the first (label, strategy) pair, in that order, whose click succeeds, and
\* it attempts a pair only after every earlier pair has failed.
C12_LabelMajorStrategyMinor ==
    call.fn = "click_by_text" =>
        LET plan == LabelMajor(call.texts)
            w == FirstSuccess(call.before, plan, 1)
        IN  IF w.n = 0
            THEN ~call.ok /\ call.clicked = 0 /\ call.attempts = plan
            ELSE /\ call.ok
                 /\ call.clicked = First(w.page, plan[w.n])
                 /\ call.attempts = SubSeq(plan, 1, w.n)

\* C12's case: the first label matches only through a late strategy (a
\* label element), the second label matches a button, and the click went to
\* the first label's match.
C12_Witness ==
    /\ call.fn = "click_by_text" /\ call.ok /\ call.texts = ENTRY_TEXTS
    /\ call.before[call.clicked].kind = "label"
    /\ call.before[call.clicked].text = ENTRY_TEXTS[1]
    /\ \E i \in 1..Len(call.before) :
          /\ call.before[i].kind = "button" /\ call.before[i].status = "ok"
          /\ call.before[i].text = ENTRY_TEXTS[2]

(***************************************************************************)
(* More claims about session establishment (Spec).                         *)
(***************************************************************************)
Has(ev, x) == IndexOf(ev, x) <= Len(ev)
NoCookieEntries ==
    \A i \in 1..Len(CookieDomains) : parse_cookie_string(cfg.cookie, CookieDomains[i]) = <<>>

\* C13: cookie_login navigates in a fixed order: after the cookies were
\* injected it goes to the landing page and checks the login markers; it goes
\* to the login entry point and checks again only if the first check failed;
\* when the cookie string yields no entries or the injection raises it
\* returns False without a navigation.
C13_CookieLoginOrder ==
    auth.cookie.called =>
        LET ev == auth.cookie.ev IN
        /\ (NoCookieEntries \/ Has(ev, "add_cookies_failed"))
               => (~auth.cookie.ret /\ ~Has(ev, "add_cookies") /\ ~Navigates(ev))
        /\ Has(ev, "add_cookies")
               => /\ SubSeq(ev, 1, 3) = <<"add_cookies", "goto_index", "snap">>
                  /\ ev[4] \in {"check_true", "check_false"}
                  /\ Has(ev, "goto_login") <=> ev[4] = "check_false"
                  /\ Has(ev, "goto_login")
                        => /\ SubSeq(ev, 5, 6) = <<"goto_login", "snap">>
                           /\ Len(ev) = 7 /\ ev[7] \in {"check_true", "check_false"}
                  /\ ~Has(ev, "goto_login") => Len(ev) = 4
        /\ Navigates(ev) => Has(ev, "add_cookies")

\* C13's case: the first check failed, the login entry point was visited and
\* the second check succeeded.
C13_Witness ==
    /\ auth.cookie.called /\ auth.cookie.ret
    /\ Has(auth.cookie.ev, "check_false")
    /\ Has(auth.cookie.ev, "goto_login")

(***************************************************************************)
(* Claims about the navigation functions (SpecChain).                      *)
(***************************************************************************)
\* The three stages of open_game_management on page p with target row t.
TargetStage(p, t) == t # 0 /\ click_row_btn(p, t).ok
FirstStage(p) == \E i \in 1..Len(FirstMgmtPlan) : try_click(p, FirstMgmtPlan[i])
ScanStage(p) ==
    \E r \in 1..MaxScanRows : r <= RowCount(p) /\ click_row_btn(p, r).ok

\* C14: open_game_management prefers the target's row; without a target, a
\* matching row or a clickable control there it falls back to the first
\* management control of the page and then to a scan of at most 10 rows; it
\* returns False only after all three stages failed and True as soon as one
\* management click succeeded.
C14_TargetRowThenFallbacks ==
    call.fn = "open_game_management" =>
        LET p == call.before
            t == TargetRow(p, call.texts[1])
        IN  /\ call.ok <=> (TargetStage(p, t) \/ FirstStage(p) \/ ScanStage(p))
            /\ call.ok <=> call.clicked # 0
            /\ call.ok => /\ Contains(p[call.clicked].text, GameKanri)
                          /\ p[call.clicked].status = "ok"
            /\ TargetStage(p, t) => p[call.clicked].row = t
            /\ (call.ok /\ ~TargetStage(p, t) /\ ~FirstStage(p))
                   => p[call.clicked].row <= MaxScanRows

\* C14's case: the target is in the second row, the first row has a control
\* that could be clicked too, and the click went to the target's row.
C14_Witness ==
    /\ call.fn = "open_game_management" /\ call.ok
    /\ call.texts = <<"waters">>
    /\ TargetRow(call.before, "waters") = 2
    /\ \E i \in 1..Len(call.before) :
          /\ call.before[i].row = 1 /\ call.before[i].status = "ok"
          /\ call.before[i].kind = "button"
    /\ call.before[call.clicked].row = 2

ChainNames == {"click_by_text", "click_text_global", "select_hours"}

\* C17 (as claimed): one invocation of the fallback chain (click_by_text,
\* click_text_global, select_hours) delivers at most one click to the page:
\* it returns True right after the first click it delivers and attempts no
\* label, strategy or frame after it.
C17_AtMostOneClick ==
    call.fn \in ChainNames =>
        /\ Len(call.delivered) <= 1
        /\ call.ok <=> call.delivered # <<>>
        /\ call.ok => call.delivered = <<call.clicked>>
        /\ call.attempts = SubSeq(Candidates(call), 1, Len(call.attempts))

AnyLabel(text, labels) == \E i \in 1..Len(labels) : Contains(text, labels[i])

\* C15: click_upgrade_or_extend searches the current page, then the detail
\* page, then the contract page, which it enters only after a detail page
\* was opened and no upgrade entry was found there; it returns True if and
\* only if a click on an upgrade-or-extend label succeeded, and on every
\* False return a screenshot and an HTML dump were requested.
C15_UpgradeSearchOrder ==
    call.fn = "click_upgrade_or_extend" =>
        LET t == call.texts[1]
            p0 == call.pages[1]
            p1 == call.pages[2]
            p2 == call.pages[3]
            \* the searches, each on the DOM the search before it left
            u0 == click_text_global(p0, UPGRADE_TEXTS)
            d0 == open_game_detail(u0.page, t)
            u1 == click_text_global(p1, UPGRADE_TEXTS)
            k1 == click_text_global(u1.page, CONTRACT_TEXTS)
            u2 == click_text_global(p2, UPGRADE_TEXTS)
            path == call.attempts
        IN  /\ path[1] = "upgrade"
            /\ \A i \in 2..Len(path) :
                  /\ path[i] = "detail" => (i = 2 /\ ~u0.ok)
                  /\ path[i] = "contract" => (i = 4 /\ d0.ok /\ ~u1.ok)
                  /\ path[i] = "upgrade" => (path[i - 1] = "detail" /\ d0.ok)
                                            \/ (path[i - 1] = "contract" /\ k1.ok)
            /\ call.ok <=> (u0.ok \/ (d0.ok /\ (u1.ok \/ (k1.ok /\ u2.ok))))
            /\ call.ok => /\ Last(path) = "upgrade"
                          /\ call.clicked # 0
                          /\ AnyLabel(call.on[call.clicked].text, UPGRADE_TEXTS)
            /\ ~call.ok => call.diag = {"snap:open_upgrade_extend_failed",
                                        "dump:open_upgrade_extend_failed"}

\* C15's case: a detail label and then a contract label were clicked, and no
\* upgrade entry was behind them: the clicks alone did not yield True.
C15_Witness ==
    /\ call.fn = "click_upgrade_or_extend" /\ ~call.ok
    /\ call.attempts = <<"upgrade", "detail", "upgrade", "contract", "upgrade">>
    /\ call.pages[3] # <<>>
    /\ call.diag # {}

\* C16: password_login presses Enter if and only if no click on a login
\* label succeeded and a password field was filled; after a successful click,
\* or without a filled password field, Enter is never pressed; the result is
\* the login-marker check made after the submission attempt.
C16_EnterOnlyAsFallback ==
    (auth.pwd.called /\ auth.pwd.ev # <<>>) =>
        LET ev == auth.pwd.ev IN
        /\ Has(ev, "fill_pwd") <=> Filled(auth.pwd.form, PWD_LABELS, "css_pwd")
        /\ Has(ev, "click_login") <=> click_by_text(auth.pwd.form, LOGIN_TEXTS).ok
        /\ Has(ev, "press_enter") <=> (~Has(ev, "click_login") /\ Has(ev, "fill_pwd"))
        /\ Last(ev) \in {"check_true", "check_false"}
        /\ auth.pwd.ret <=> Last(ev) = "check_true"
        /\ \A i \in 1..Len(ev) :
              ev[i] \in {"click_login", "press_enter", "fill_pwd", "fill_email"}
                  => i < Len(ev) - 1
        /\ (steps = <<>> /\ pc \in {"ensure_index", "done"})
               => (auth.pwd.ret <=> is_logged_in(page))

\* C16's case: the password field and the login button are both covered; the
\* field was filled all the same, no click on a login label succeeded, Enter
\* was pressed and the check that followed was positive.
C16_Witness ==
    /\ auth.pwd.called /\ auth.pwd.ret
    /\ \E i \in 1..Len(auth.pwd.form) :
          /\ auth.pwd.form[i].kind = "input_password"
          /\ auth.pwd.form[i].status = "blocked"
    /\ Has(auth.pwd.ev, "fill_pwd") /\ Has(auth.pwd.ev, "press_enter")
    /\ ~Has(auth.pwd.ev, "click_login")

\* The entry, selection and proceed-to-confirm steps all failed: the wizard
\* is still on the page it was entered on.
AllSoftFailed ==
    /\ Len(WizardSteps) = Len(WizardOrder)
    /\ ~WizardSteps[1].ok /\ ~WizardSteps[2].ok /\ ~WizardSteps[4].ok

\* C18 (as claimed): final submission succeeds only on a commit control of
\* the confirmation surface: the final click never lands on the entry
\* 'extend' button, even when the entry, selection and proceed-to-confirm
\* steps all failed.
C18_FinalClickNotOnEntryButton ==
    (call.fn = "final_submit" /\ call.ok /\ AllSoftFailed)
        => ~AnyLabel(call.before[call.clicked].text, ENTRY_TEXTS)

\* C19 (as claimed): accept_required_checks never revokes an acknowledgment:
\* every checkbox that is checked when the function is called is still
\* checked when it returns.
C19_NeverRevokes ==
    call.fn = "accept_required_checks" =>
        \A i \in 1..Len(call.before) :
            (call.before[i].kind \in CheckKinds /\ call.before[i].checked)
                => page[i].checked

====
